---- MODULE Spec2Model ----
(***************************************************************************)
(* Model of scripts/train.py: the policy-gradient trainer's control flow   *)
(* (main, execute, play_and_train) and its checkpoint file protocol.       *)
(*                                                                         *)
(* The specifications share the variables:                                 *)
(*   Spec        - main() and execute() with play_and_train taken as one   *)
(*                 step per batch, long enough (MaxBatches) to reach the   *)
(*                 second periodic checkpoint;                             *)
(*   SpecTrain   - the same program with play_and_train unfolded turn by   *)
(*                 turn, for the first MaxBatchesTrain batches;            *)
(*   SpecLive    - the training loop left to run, under weak fairness;     *)
(*   SpecTurn    - the first episode with the samples and the game call    *)
(*                 of every turn;                                          *)
(*   SpecReturns - the discounted returns of one kept episode.             *)
(*                                                                         *)
(* Abstractions: the policy parameters are a natural number (an identity   *)
(* of the tensor values: 0 for the fresh initialisation, +1 per optimizer  *)
(* step); total_loss is the number of -(log_prob * R) terms summed into    *)
(* it; a log-probability entry is the sum of the weights of the sampled    *)
(* terms, counted in halves.  A file is a sequence of pickled records;     *)
(* a write that fails may leave a torn record behind.                      *)
(***************************************************************************)
EXTENDS Integers, Sequences, FiniteSets, TLC

VARIABLES
    pc,          \* control location of main / execute / play_and_train
    fs,          \* the file system: path -> file
    args,        \* the parsed command line (restore, pickle, bs)
    new,         \* main: no checkpoint has been written yet
    exc,         \* the exception in flight ("none" when there is none)
    res,         \* main: the snapshot yielded by execute
    scores,      \* execute: the score history
    params,      \* the policy parameters
    optimSteps,  \* the optimizer's step count
    i,           \* execute: the batch counter
    total_loss,  \* play_and_train
    turns,       \* play_and_train
    bscores,     \* play_and_train: its local list `scores`
    log_probs,   \* play_and_train: the episode's log-probabilities
    rewards,     \* play_and_train: the episode's rewards
    game,        \* the Game of the running episode
    lastGood,    \* history: the file as the last completed checkpoint left it
    out,         \* play_and_train: what the last game action returned
    nEpisodes,   \* history: episodes played to termination
    nKept,       \* history: episodes of at least MinTurns game actions
    returns,     \* play_and_train: the list `returns` before line 153
    call,        \* the game method called by the last turn, with arguments
    samples      \* the sample() calls of the last turn: slice, index, weight

vars == << pc, fs, args, new, exc, res, scores, params, optimSteps, i,
           total_loss, turns, bscores, log_probs, rewards, game,
           out, lastGood, nEpisodes, nKept, returns, call, samples >>

mainVars  == << fs, new, res, lastGood >>
batchVars == << total_loss, turns, bscores, log_probs, rewards, game, out >>
decodeVars == << call, samples >>
turnVars == << returns, call, samples >>

-----------------------------------------------------------------------------
(* Bounds of the model *)

\* Spec: execute's loop is followed for this many batches
MaxBatches == 2000
\* Spec: the batches whose returned scores are chosen freely; later batches
\* return the scripted list
VaryBatches == 2
\* SpecTrain: execute's loop is followed for this many batches
MaxBatchesTrain == 2
\* SpecLive: execute's loop is followed for this many batches
MaxBatchesLive == 1
\* SpecTrain: the scripted game ends an episode at this turn at the latest
MaxTurns == 5
\* SpecTrain: at most this many episodes of a run end before their third turn
MaxShort == 1
\* SpecReturns: the longest reward sequence
MaxRewards == 4

(* Program constants *)

\* execute: `if i % 1000 == 0`
SaveEvery == 1000
\* play_and_train: `if len(log_probs) >= 3`
MinTurns == 3
\* play_and_train: `if game.score == 25`
PerfectScore == 25

-----------------------------------------------------------------------------
(* Files and pickled records *)

None == "None"
CkptPath == "ckpt"
PrevPath == "prev"
Paths == {CkptPath, PrevPath}

NoFile == [exists |-> FALSE, data |-> << >>]
FileOf(data) == [exists |-> TRUE, data |-> data]

\* what an interrupted torch.save may leave behind
TornRecord == [type |-> "torn", items |-> << >>]

\* torch.save of the argparse Namespace
PickleArgs(a) ==
    [type |-> "Namespace",
     items |-> << [k |-> "restore", v |-> a.restore],
                  [k |-> "pickle",  v |-> a.pickle],
                  [k |-> "bs",      v |-> a.bs] >>]

\* torch.save of the dict execute yields, keys in insertion order
PickleRes(r) ==
    [type |-> "dict",
     items |-> << [k |-> "args",   v |-> r.args],
                  [k |-> "state",  v |-> r.state],
                  [k |-> "scores", v |-> r.scores] >>]

\* torch.load at record number n of a file opened for reading: defined when
\* the record is there and whole
CanLoad(file, n) ==
    /\ file.exists
    /\ Len(file.data) >= n
    /\ file.data[n].type # "torn"

HasKey(rec, key) == \E j \in 1..Len(rec.items) : rec.items[j].k = key

\* x[key] on a loaded dict
Lookup(rec, key) ==
    LET j == CHOOSE j \in 1..Len(rec.items) : rec.items[j].k = key
    IN  rec.items[j].v

\* execute's restore block can run to its end on this file
Restorable(file) ==
    /\ CanLoad(file, 1)
    /\ CanLoad(file, 2)
    /\ file.data[2].type = "dict"
    /\ HasKey(file.data[2], "scores")
    /\ HasKey(file.data[2], "state")

\* lines 187-190: what the restore block takes from the file, x being the
\* second record
Loaded(file) ==
    LET x == file.data[2]
    IN  [scores |-> Lookup(x, "scores"), state |-> Lookup(x, "state")]

\* the file a completed checkpoint write leaves
CheckpointFile(a, r) == FileOf(<< PickleArgs(a), PickleRes(r) >>)

-----------------------------------------------------------------------------
(* Inputs *)

BsValues == {0, 4}

ArgsSet == [restore : {None} \cup Paths, pickle : {CkptPath}, bs : BsValues]

\* the command line of the earlier run that wrote the files found at start
PrevArgs == [restore |-> None, pickle |-> CkptPath, bs |-> 4]

\* what the earlier run had reached when it wrote them
PrevSnapshots ==
    { [args |-> PrevArgs, state |-> 7, scores |-> << 0, 2 >>],
      [args |-> PrevArgs, state |-> 9, scores |-> << 0, 25, 1 >>] }

PrevCheckpoints == { CheckpointFile(PrevArgs, s) : s \in PrevSnapshots }

\* the file of an earlier run that ended before its first checkpoint
ConfigOnlyFile == FileOf(<< PickleArgs(PrevArgs) >>)

\* Game(4): a new game, no action called yet
NewGame == [score |-> 0, gameover |-> FALSE, calls |-> 0]

\* no game method has been called yet
NoCall == [fn |-> "none", a |-> -1, kind |-> "none", number |-> -1,
           colour |-> ""]

\* total_loss = 0: no term summed, not yet divided
ZeroLoss == [terms |-> 0, div |-> 1]

\* the parameters the orthogonal initialisation produces
FreshParams == 0

Init ==
    /\ pc = "save0"
    /\ args \in ArgsSet
    /\ fs \in [Paths -> {NoFile, ConfigOnlyFile} \cup PrevCheckpoints]
    /\ args.restore # PrevPath => fs[PrevPath] = NoFile
    /\ fs[CkptPath] # ConfigOnlyFile
    /\ new = TRUE
    /\ exc = "none"
    /\ res = None
    /\ scores = << >>
    /\ params = FreshParams
    /\ optimSteps = 0
    /\ i = 1
    /\ total_loss = ZeroLoss
    /\ turns = 0
    /\ bscores = << >>
    /\ log_probs = << >>
    /\ rewards = << >>
    /\ game = NewGame
    /\ lastGood = NoFile
    /\ nEpisodes = 0
    /\ nKept = 0
    /\ out = None
    /\ returns = << >>
    /\ call = NoCall
    /\ samples = << >>

-----------------------------------------------------------------------------
(* main, before the try block *)

\* a torch.save that fails part-way appends nothing or a torn record
FailedWrite(file) ==
    { file, FileOf(Append(file.data, TornRecord)) }

\* line 230: torch.save(args, args.pickle) creates or truncates the file and
\* writes the configuration record
InitialSave ==
    /\ pc = "save0"
    /\ fs' = [fs EXCEPT ![args.pickle] = FileOf(<< PickleArgs(args) >>)]
    /\ pc' = "start"
    /\ UNCHANGED << args, new, exc, res, scores, params, optimSteps, i,
                    lastGood, nEpisodes, nKept >>
    /\ UNCHANGED batchVars
    /\ UNCHANGED turnVars

\* line 230 raising: it is outside the try block, so nothing is cleaned up;
\* the open may have failed (file as before) or the write (file truncated)
InitialSaveFail ==
    /\ pc = "save0"
    /\ \E f \in {fs[args.pickle]} \cup FailedWrite(FileOf(<< >>)) :
           fs' = [fs EXCEPT ![args.pickle] = f]
    /\ exc' = "save0"
    /\ pc' = "raised"
    /\ UNCHANGED << args, new, res, scores, params, optimSteps, i,
                    lastGood, nEpisodes, nKept >>
    /\ UNCHANGED batchVars
    /\ UNCHANGED turnVars

-----------------------------------------------------------------------------
(* execute, up to its loop *)

\* lines 171-183, run at the first next() of the generator
ExecuteStart ==
    /\ pc = "start"
    /\ scores' = << 0 >>
    /\ params' = FreshParams
    /\ optimSteps' = 0
    /\ pc' = IF args.restore # None THEN "restore" ELSE "loop"
    /\ UNCHANGED << args, exc, i, nEpisodes, nKept >>
    /\ UNCHANGED mainVars
    /\ UNCHANGED batchVars
    /\ UNCHANGED turnVars

\* lines 185-190: the first record is read and dropped, the second gives
\* the score history and the parameters
RestoreMut ==
    /\ pc = "restore"
    /\ Restorable(fs[args.restore])
    /\ scores' = Loaded(fs[args.restore]).scores
    /\ params' = params
    /\ pc' = "loop"
    /\ UNCHANGED << args, exc, optimSteps, i, nEpisodes, nKept >>
    /\ UNCHANGED mainVars
    /\ UNCHANGED batchVars
    /\ UNCHANGED turnVars

Restore ==
    /\ pc = "restore"
    /\ Restorable(fs[args.restore])
    /\ scores' = Loaded(fs[args.restore]).scores
    /\ params' = Loaded(fs[args.restore]).state
    /\ pc' = "loop"
    /\ UNCHANGED << args, exc, optimSteps, i, nEpisodes, nKept >>
    /\ UNCHANGED mainVars
    /\ UNCHANGED batchVars
    /\ UNCHANGED turnVars

\* lines 185-190 raising: no such file, or a record missing or torn
RestoreFail ==
    /\ pc = "restore"
    /\ ~Restorable(fs[args.restore])
    /\ exc' = "restore"
    /\ pc' = "except"
    /\ UNCHANGED << args, scores, params, optimSteps, i, nEpisodes, nKept >>
    /\ UNCHANGED mainVars
    /\ UNCHANGED batchVars
    /\ UNCHANGED turnVars

-----------------------------------------------------------------------------
(* execute's loop, one batch per step (Spec) *)

\* one optimizer.step() on the parameters
OptimizerStep(p) == p + 1

\* the scores play_and_train may return in batch n: one per kept episode
BatchScores(n) ==
    IF n <= VaryBatches THEN { << 0 >>, << 25, 3 >> } ELSE { << n % 26 >> }

ExtendMut(history, new_scores) == new_scores \o history

\* line 195: scores.extend(new_scores)
Extend(history, new_scores) == history \o new_scores

\* lines 200-204: the dict execute yields; 'state' and 'scores' are the live
\* parameters and the live list, read while the generator is suspended
Snapshot(a, p, s) == [args |-> a, state |-> p, scores |-> s]

IsSaveBatchMut(n) == n % SaveEvery = 1

\* line 197
IsSaveBatch(n) == n % SaveEvery = 0

\* lines 195-208 and the loop's increment, given what play_and_train returned
AfterBatch(new_scores) ==
    /\ scores' = Extend(scores, new_scores)
    /\ IF IsSaveBatch(i)
       THEN /\ res' = Snapshot(args, params', scores')
            /\ pc' = "yield"
            /\ i' = i
       ELSE /\ res' = res
            /\ pc' = "loop"
            /\ i' = i + 1

\* line 194 with a positive args.bs: play_and_train runs to its end, takes
\* one optimizer step and returns the scores of the episodes it kept
Batch ==
    /\ pc = "loop"
    /\ i <= MaxBatches
    /\ args.bs >= 1
    /\ params' = OptimizerStep(params)
    /\ optimSteps' = optimSteps + 1
    /\ \E new_scores \in BatchScores(i) :
          /\ AfterBatch(new_scores)
          /\ nEpisodes' = nEpisodes + Len(new_scores)
          /\ nKept' = nKept + Len(new_scores)
    /\ UNCHANGED << args, exc, fs, new, lastGood >>
    /\ UNCHANGED batchVars
    /\ UNCHANGED turnVars

\* line 194 with args.bs <= 0: the while loop is skipped and line 160
\* divides by turns = 0
BatchDivZero ==
    /\ pc = "loop"
    /\ args.bs < 1
    /\ exc' = "train"
    /\ pc' = "except"
    /\ UNCHANGED << args, scores, params, optimSteps, i, nEpisodes, nKept >>
    /\ UNCHANGED mainVars
    /\ UNCHANGED batchVars
    /\ UNCHANGED turnVars

\* an exception raised inside play_and_train (KeyboardInterrupt, a device
\* error): it leaves execute and reaches main's except clause
TrainFail ==
    /\ pc = "loop"
    /\ i <= MaxBatches
    /\ exc' = "train"
    /\ pc' = "except"
    /\ UNCHANGED << args, scores, params, optimSteps, i, nEpisodes, nKept >>
    /\ UNCHANGED mainVars
    /\ UNCHANGED batchVars
    /\ UNCHANGED turnVars

-----------------------------------------------------------------------------
(* main's loop body: one checkpoint write *)

execVars == << args, scores, params, optimSteps, i, nEpisodes, nKept >>

\* line 233: open(args.pickle, 'wb') creates or truncates the file
Open ==
    /\ pc = "yield"
    /\ fs' = [fs EXCEPT ![args.pickle] = FileOf(<< >>)]
    /\ pc' = "save_args"
    /\ UNCHANGED << new, res, lastGood, exc >>
    /\ UNCHANGED execVars
    /\ UNCHANGED batchVars
    /\ UNCHANGED turnVars

\* line 233 raising before the file is touched
OpenFail ==
    /\ pc = "yield"
    /\ exc' = "save"
    /\ pc' = "except"
    /\ UNCHANGED mainVars
    /\ UNCHANGED execVars
    /\ UNCHANGED batchVars
    /\ UNCHANGED turnVars

\* line 234: torch.save(args, f)
SaveArgs ==
    /\ pc = "save_args"
    /\ fs' = [fs EXCEPT ![args.pickle] =
                 FileOf(Append(fs[args.pickle].data, PickleArgs(args)))]
    /\ pc' = "save_res"
    /\ UNCHANGED << new, res, lastGood, exc >>
    /\ UNCHANGED execVars
    /\ UNCHANGED batchVars
    /\ UNCHANGED turnVars

\* line 234 raising
SaveArgsFail ==
    /\ pc = "save_args"
    /\ \E f \in FailedWrite(fs[args.pickle]) :
           fs' = [fs EXCEPT ![args.pickle] = f]
    /\ exc' = "save"
    /\ pc' = "except"
    /\ UNCHANGED << new, res, lastGood >>
    /\ UNCHANGED execVars
    /\ UNCHANGED batchVars
    /\ UNCHANGED turnVars

\* line 235: torch.save(res, f)
SaveRes ==
    /\ pc = "save_res"
    /\ fs' = [fs EXCEPT ![args.pickle] =
                 FileOf(Append(fs[args.pickle].data, PickleRes(res)))]
    /\ pc' = "mark"
    /\ UNCHANGED << new, res, lastGood, exc >>
    /\ UNCHANGED execVars
    /\ UNCHANGED batchVars
    /\ UNCHANGED turnVars

\* line 235 raising
SaveResFail ==
    /\ pc = "save_res"
    /\ \E f \in FailedWrite(fs[args.pickle]) :
           fs' = [fs EXCEPT ![args.pickle] = f]
    /\ exc' = "save"
    /\ pc' = "except"
    /\ UNCHANGED << new, res, lastGood >>
    /\ UNCHANGED execVars
    /\ UNCHANGED batchVars
    /\ UNCHANGED turnVars

\* line 236: new = False, and the with block closes the file
MarkSaved ==
    /\ pc = "mark"
    /\ new' = FALSE
    /\ lastGood' = fs[args.pickle]
    /\ pc' = "resume"
    /\ UNCHANGED << fs, res, exc >>
    /\ UNCHANGED execVars
    /\ UNCHANGED batchVars
    /\ UNCHANGED turnVars

\* the generator is resumed: lines 206-208, then the next i
Resume ==
    /\ pc = "resume"
    /\ i' = i + 1
    /\ pc' = "loop"
    /\ UNCHANGED << args, scores, params, optimSteps, nEpisodes, nKept, exc >>
    /\ UNCHANGED mainVars
    /\ UNCHANGED batchVars
    /\ UNCHANGED turnVars

ExceptMut ==
    /\ pc = "except"
    /\ fs' = fs
    /\ pc' = "raised"
    /\ UNCHANGED << new, res, lastGood, exc >>
    /\ UNCHANGED execVars
    /\ UNCHANGED batchVars
    /\ UNCHANGED turnVars

\* lines 237-240: the bare except removes the file while new, and re-raises
Except ==
    /\ pc = "except"
    /\ fs' = IF new THEN [fs EXCEPT ![args.pickle] = NoFile] ELSE fs
    /\ pc' = "raised"
    /\ UNCHANGED << new, res, lastGood, exc >>
    /\ UNCHANGED execVars
    /\ UNCHANGED batchVars
    /\ UNCHANGED turnVars

-----------------------------------------------------------------------------

Next ==
    \/ InitialSave
    \/ InitialSaveFail
    \/ ExecuteStart
    \/ Restore
    \/ RestoreFail
    \/ Batch
    \/ BatchDivZero
    \/ TrainFail
    \/ Open
    \/ OpenFail
    \/ SaveArgs
    \/ SaveArgsFail
    \/ SaveRes
    \/ SaveResFail
    \/ MarkSaved
    \/ Resume
    \/ Except

Spec == Init /\ [][Next]_vars

-----------------------------------------------------------------------------
(* The game collaborator (hanabi.Game), from its interface: every action    *)
(* call returns None or a terminal signal and may change score and          *)
(* gameover.  It is scripted over a few score values so that a perfect      *)
(* score is met within MaxTurns turns.                                      *)

Signal == "signal"

GameScores == {0, 1, PerfectScore}

\* the episode ends on a turn with this response
Terminal(g, o) == o # None \/ g.gameover

\* what one call of play, discard or clue may do to game g; mayEndShort says
\* whether the script may still end an episode before its MinTurns-th turn
GameResponses(g, mayEndShort) ==
    { r \in [game : [score : {x \in GameScores : x >= g.score},
                     gameover : BOOLEAN,
                     calls : {g.calls + 1}],
             out : {None, Signal}] :
        /\ (g.calls + 1 >= MaxTurns) => Terminal(r.game, r.out)
        /\ (g.calls + 1 < MinTurns /\ ~mayEndShort) => ~Terminal(r.game, r.out) }

-----------------------------------------------------------------------------
(* play_and_train, turn by turn (SpecTrain) *)

RECURSIVE SumSeq(_)
SumSeq(q) == IF q = << >> THEN 0 ELSE Head(q) + SumSeq(Tail(q))

SampleWeightsMut(action) ==
    IF action \in {0, 1} THEN << 2, 2 >> ELSE << 2, 2, 2 >>

\* lines 111-124: the weights w of the sample() calls of one turn, in
\* halves: the top-level action, then a position, or a target and an info
SampleWeights(action) ==
    IF action \in {0, 1} THEN << 2, 2 >> ELSE << 2, 1, 1 >>

\* loss[0] after the turn's samples
TurnLogProb(action) == SumSeq(SampleWeights(action))

RewardMut(o, g, before) ==
    IF o # None \/ g.gameover THEN -1 ELSE g.score - before

\* lines 133-144: the reward of a turn, before being the score at line 112
Reward(o, g, before) ==
    IF o # None THEN -1
    ELSE IF g.gameover
         THEN (IF g.score = PerfectScore THEN g.score - before ELSE -1)
         ELSE g.score - before

BreaksMut(o, g) == g.gameover

\* lines 133-142: the turn ends the rollout
Breaks(o, g) == o # None \/ g.gameover

WhileCondMut(t, bs) == t + 1 < bs

\* line 88
WhileCond(t, bs) == t < bs

KeptMut(lp) == Len(lp) >= MinTurns - 1

KeptLate(lp) == Len(lp) >= MinTurns * 10

\* line 146
Kept(lp) == Len(lp) >= MinTurns

\* lines 84-86, called from line 194
PlayAndTrainStep ==
    /\ pc = "loop"
    /\ total_loss' = ZeroLoss
    /\ turns' = 0
    /\ bscores' = << >>
    /\ pc' = "while"
    /\ UNCHANGED << log_probs, rewards, game, out >>
    /\ UNCHANGED execVars
    /\ UNCHANGED << exc >>
    /\ UNCHANGED mainVars
    /\ UNCHANGED turnVars

\* the call in SpecTrain
PlayAndTrainCall == i <= MaxBatchesTrain /\ PlayAndTrainStep

\* lines 88-93: one more episode
EpisodeStart ==
    /\ pc = "while"
    /\ WhileCond(turns, args.bs)
    /\ log_probs' = << >>
    /\ rewards' = << >>
    /\ game' = NewGame
    /\ pc' = "turn"
    /\ UNCHANGED << total_loss, turns, bscores, out >>
    /\ UNCHANGED execVars
    /\ UNCHANGED << exc >>
    /\ UNCHANGED mainVars
    /\ UNCHANGED turnVars

\* lines 95-144: one turn: sample, call the game, record the log-probability
\* and the reward, and break when the game ended
TurnStep(action, r) ==
    LET score == game.score
    IN  /\ pc = "turn"
        /\ game' = r.game
        /\ out' = r.out
        /\ log_probs' = Append(log_probs, TurnLogProb(action))
        /\ rewards' = Append(rewards, Reward(r.out, r.game, score))
        /\ pc' = IF Breaks(r.out, r.game) THEN "episode_end" ELSE "turn"
        /\ UNCHANGED << total_loss, turns, bscores >>
        /\ UNCHANGED execVars
        /\ UNCHANGED << exc, returns >>
        /\ UNCHANGED mainVars

\* a turn of SpecTrain: the script ends at most MaxShort episodes early
Turn ==
    \E action \in 0..2 :
    \E r \in GameResponses(game, nEpisodes - nKept < MaxShort) :
       TurnStep(action, r) /\ UNCHANGED decodeVars

EpisodeEndStepScored ==
    /\ pc = "episode_end"
    /\ IF Kept(log_probs)
       THEN /\ turns' = turns + Len(log_probs)
            /\ total_loss' = [total_loss EXCEPT !.terms = @ + Len(log_probs)]
       ELSE UNCHANGED << turns, total_loss >>
    /\ bscores' = Append(bscores, game.score)
    /\ pc' = "while"
    /\ UNCHANGED << log_probs, rewards, game, out >>
    /\ UNCHANGED << args, scores, params, optimSteps, i, exc >>
    /\ UNCHANGED mainVars
    /\ UNCHANGED turnVars

EpisodeEndStepMut ==
    /\ pc = "episode_end"
    /\ IF Kept(log_probs)
       THEN /\ turns' = turns + Len(log_probs)
            /\ total_loss' = [total_loss EXCEPT !.terms = @ + Len(log_probs)]
            /\ bscores' = Append(bscores, game.score)
       ELSE UNCHANGED << turns, total_loss, bscores >>
    /\ params' = OptimizerStep(params)
    /\ scores' = Append(scores, game.score)
    /\ pc' = "while"
    /\ UNCHANGED << log_probs, rewards, game, out >>
    /\ UNCHANGED << args, optimSteps, i, exc >>
    /\ UNCHANGED mainVars
    /\ UNCHANGED turnVars

\* lines 146-158: an episode of at least MinTurns turns adds its turns, its
\* loss terms (one per zipped pair) and its score; a shorter one adds nothing
EpisodeEndStep ==
    /\ pc = "episode_end"
    /\ IF Kept(log_probs)
       THEN /\ turns' = turns + Len(log_probs)
            /\ total_loss' = [total_loss EXCEPT !.terms =
                  @ + (IF Len(log_probs) <= Len(rewards)
                       THEN Len(log_probs) ELSE Len(rewards))]
            /\ bscores' = Append(bscores, game.score)
       ELSE UNCHANGED << turns, total_loss, bscores >>
    /\ pc' = "while"
    /\ UNCHANGED << log_probs, rewards, game, out >>
    /\ UNCHANGED << args, scores, params, optimSteps, i, exc >>
    /\ UNCHANGED mainVars
    /\ UNCHANGED turnVars

\* the end of an episode in SpecTrain, counted in the history variables
EpisodeEnd ==
    /\ EpisodeEndStep
    /\ nEpisodes' = nEpisodes + 1
    /\ nKept' = IF game.calls >= MinTurns THEN nKept + 1 ELSE nKept

\* line 160 with turns > 0, the while loop being over
Divide ==
    /\ pc = "while"
    /\ ~WhileCond(turns, args.bs)
    /\ turns # 0
    /\ total_loss' = [total_loss EXCEPT !.div = turns]
    /\ pc' = "optim"
    /\ UNCHANGED << turns, bscores, log_probs, rewards, game, out >>
    /\ UNCHANGED execVars
    /\ UNCHANGED << exc >>
    /\ UNCHANGED mainVars
    /\ UNCHANGED turnVars

\* line 160 with turns = 0 (args.bs <= 0): ZeroDivisionError
DivideZero ==
    /\ pc = "while"
    /\ ~WhileCond(turns, args.bs)
    /\ turns = 0
    /\ exc' = "train"
    /\ pc' = "except"
    /\ UNCHANGED batchVars
    /\ UNCHANGED execVars
    /\ UNCHANGED mainVars
    /\ UNCHANGED turnVars

\* lines 162-164: zero_grad, backward, one optimizer step
OptimStep ==
    /\ pc = "optim"
    /\ params' = OptimizerStep(params)
    /\ optimSteps' = optimSteps + 1
    /\ pc' = "return"
    /\ UNCHANGED << args, scores, i, nEpisodes, nKept, exc >>
    /\ UNCHANGED batchVars
    /\ UNCHANGED mainVars
    /\ UNCHANGED turnVars

\* line 167 and, back in execute, lines 195-208; play_and_train's locals
\* end with its frame
Return ==
    /\ pc = "return"
    /\ AfterBatch(bscores)
    /\ total_loss' = ZeroLoss
    /\ turns' = 0
    /\ bscores' = << >>
    /\ log_probs' = << >>
    /\ rewards' = << >>
    /\ game' = NewGame
    /\ out' = None
    /\ UNCHANGED << args, params, optimSteps, nEpisodes, nKept, exc >>
    /\ UNCHANGED << fs, new, lastGood >>
    /\ returns' = << >>
    /\ call' = NoCall
    /\ samples' = << >>

NextTrain ==
    \/ InitialSave
    \/ InitialSaveFail
    \/ ExecuteStart
    \/ Restore
    \/ RestoreFail
    \/ PlayAndTrainCall
    \/ EpisodeStart
    \/ Turn
    \/ EpisodeEnd
    \/ Divide
    \/ DivideZero
    \/ OptimStep
    \/ Return
    \/ TrainFail
    \/ Except

SpecTrain == Init /\ [][NextTrain]_vars

-----------------------------------------------------------------------------
(* The discounted returns of one kept episode (SpecReturns).  The floats   *)
(* of lines 148-152 are modelled as exact fractions in lowest terms.       *)

RECURSIVE GCD(_, _)
GCD(a, b) == IF b = 0 THEN a ELSE GCD(b, a % b)

Abs(a) == IF a < 0 THEN -a ELSE a

\* the fraction n/d, d > 0, in lowest terms
Frac(n, d) ==
    LET g == GCD(Abs(n), d) IN [n |-> n \div g, d |-> d \div g]

FracAdd(a, b) == Frac(a.n * b.d + b.n * a.d, a.d * b.d)

FracMul(a, b) == Frac(a.n * b.n, a.d * b.d)

\* line 220: the default of --gamma, 0.99
Gamma == Frac(99, 100)

\* lines 133-144: a reward is -1 or a difference of scores
RewardValues == {-1, 0, 1}

RECURSIVE Reverse(_)
\* line 150: rewards[::-1]
Reverse(q) == IF q = << >> THEN << >> ELSE Append(Reverse(Tail(q)), Head(q))

InsertBack(R, rs) == Append(rs, R)

\* line 152: returns.insert(0, R)
InsertFront(R, rs) == << R >> \o rs

RECURSIVE ReturnsLoop(_, _, _)
\* lines 150-152: the loop over the reversed rewards, R carried along
ReturnsLoop(rev, R, acc) ==
    IF rev = << >> THEN acc
    ELSE LET R2 == FracAdd(Frac(Head(rev), 1), FracMul(Gamma, R))
         IN  ReturnsLoop(Tail(rev), R2, InsertFront(R2, acc))

\* lines 148-152: R = 0, returns = [], then the loop
Returns(rw) == ReturnsLoop(Reverse(rw), Frac(0, 1), << >>)

\* an episode that has just ended, with any rewards
InitReturns ==
    /\ pc = "episode_end"
    /\ \E n \in 1..MaxRewards :
          /\ rewards \in [1..n -> RewardValues]
          /\ log_probs = [k \in 1..n |-> TurnLogProb(0)]
          /\ game = [score |-> 0, gameover |-> TRUE, calls |-> n]
    /\ args = PrevArgs
    /\ fs = [q \in Paths |-> IF q = CkptPath
                             THEN FileOf(<< PickleArgs(PrevArgs) >>)
                             ELSE NoFile]
    /\ new = TRUE
    /\ exc = "none"
    /\ res = None
    /\ scores = << 0 >>
    /\ params = FreshParams
    /\ optimSteps = 0
    /\ i = 1
    /\ total_loss = ZeroLoss
    /\ turns = 0
    /\ bscores = << >>
    /\ lastGood = NoFile
    /\ nEpisodes = 0
    /\ nKept = 0
    /\ out = None
    /\ returns = << >>
    /\ call = NoCall
    /\ samples = << >>

\* lines 146-152: the returns of a kept episode, before their normalisation
ComputeReturns ==
    /\ pc = "episode_end"
    /\ Kept(log_probs)
    /\ returns' = Returns(rewards)
    /\ pc' = "returns_done"
    /\ UNCHANGED << total_loss, turns, bscores, log_probs, rewards, game, out >>
    /\ UNCHANGED execVars
    /\ UNCHANGED << exc >>
    /\ UNCHANGED mainVars
    /\ UNCHANGED decodeVars

NextReturns == ComputeReturns

SpecReturns == InitReturns /\ [][NextReturns]_vars

-----------------------------------------------------------------------------
(* The training loop left to run (SpecLive): no exception from outside, any *)
(* number of early-ending episodes, every episode over within MaxTurns      *)
(* turns.  The history counters are not kept.                               *)

PlayAndTrainCallLive == i <= MaxBatchesLive /\ PlayAndTrainStep

TurnLive ==
    \E action \in 0..2 :
    \E r \in GameResponses(game, TRUE) :
       TurnStep(action, r) /\ UNCHANGED decodeVars

EpisodeEndLive ==
    /\ EpisodeEndStep
    /\ UNCHANGED << nEpisodes, nKept >>

NextLive ==
    \/ InitialSave
    \/ InitialSaveFail
    \/ ExecuteStart
    \/ Restore
    \/ RestoreFail
    \/ PlayAndTrainCallLive
    \/ EpisodeStart
    \/ TurnLive
    \/ EpisodeEndLive
    \/ Divide
    \/ DivideZero
    \/ OptimStep
    \/ Return
    \/ Except

\* the interpreter always takes the program's next step
SpecLive == Init /\ [][NextLive]_vars /\ WF_vars(NextLive)

-----------------------------------------------------------------------------
(* Properties of the checkpoint protocol (Spec) *)

\* a checkpoint write of this run has completed
Checkpointed == lastGood # NoFile

\* main is between open() and the end of the second torch.save
Writing == pc \in {"save_args", "save_res"}

\* a configuration record followed by a state record that the restore
\* block can read
CompleteCheckpoint(file) ==
    /\ Restorable(file)
    /\ Len(file.data) = 2
    /\ file.data[1].type = "Namespace"

C2_LaterFailureKeepsCheckpoint ==
    (pc \in {"except", "raised"} /\ exc = "save" /\ Checkpointed)
        => /\ fs[args.pickle] = lastGood
           /\ CompleteCheckpoint(fs[args.pickle])

\* C3: once a checkpoint write has completed, in every later state (also in
\* the middle of a later checkpoint write) the file at the checkpoint path
\* is the complete checkpoint most recently written.
C3_AlwaysResumable ==
    Checkpointed
        => /\ CompleteCheckpoint(fs[args.pickle])
           /\ fs[args.pickle] = lastGood

\* C4: the file a completed checkpoint write leaves is read back by the
\* restore block as the score history and the parameters of the snapshot
\* written, which are those of the run at that batch; and a run restored
\* from a file that a completed checkpoint write left starts its first batch
\* with the score history and the parameters of the snapshot in that file.
C4_RoundTrip ==
    /\ pc \in {"mark", "resume"}
           => /\ Restorable(fs[args.pickle])
              /\ Loaded(fs[args.pickle]).scores = res.scores
              /\ Loaded(fs[args.pickle]).state = res.state
              /\ res.scores = scores
              /\ res.state = params
    /\ (pc = "loop" /\ i = 1 /\ args.restore # None)
           => \E s \in PrevSnapshots :
                 /\ fs[args.restore] = CheckpointFile(PrevArgs, s)
                 /\ scores = s.scores
                 /\ params = s.state

C4_Witness ==
    /\ pc = "mark"
    /\ args.restore = PrevPath
    /\ i = SaveEvery
    /\ Len(scores) > SaveEvery
    /\ Loaded(fs[args.pickle]).scores = scores

\* C5: whenever a file exists at the checkpoint path and no write to it is
\* in progress, it is a configuration record followed by a state record
\* that the restore block can read.
C5_LayoutWheneverFileExists ==
    (fs[args.pickle].exists /\ ~Writing) => CompleteCheckpoint(fs[args.pickle])

-----------------------------------------------------------------------------
(* Properties of the training loop (SpecTrain) *)

IsPrefix(p, q) == Len(p) <= Len(q) /\ SubSeq(q, 1, Len(p)) = p

Last(q) == q[Len(q)]

\* execute's loop has been entered: the history is the initial or restored one
Started == pc \notin {"save0", "start", "restore"}

\* the length of the history the run started from
BaseLen ==
    IF args.restore = None THEN 0 ELSE Len(Loaded(fs[args.restore]).scores)

\* C6: the score history is append-only: no step of the loop changes it
\* except the end of a batch, which extends it by the batch's list, and the
\* batch's list grows only by the final score of the episode that has just
\* completed, put at its end.
C6_AppendOnly ==
    [][ /\ Started => IsPrefix(scores, scores')
        /\ (Started /\ pc # "return") => scores' = scores
        /\ pc = "return" => scores' = scores \o bscores
        /\ pc = "episode_end"
               => bscores' = bscores \/ bscores' = Append(bscores, game.score)
        /\ pc \in {"while", "turn", "optim"} => bscores' = bscores
      ]_vars

C6_Witness ==
    /\ pc = "loop"
    /\ i = 3
    /\ args.restore = PrevPath
    /\ scores = << 0, 25, 1, 1, 0, 25, 1 >>

\* C7 as claimed: the history is empty before the first batch of a run
\* without restore path, and its length is the number of episodes played to
\* termination plus the restored length.
C7_OnePerCompletedEpisode ==
    /\ (pc = "loop" /\ i = 1 /\ args.restore = None) => scores = << >>
    /\ pc = "loop" => Len(scores) = nEpisodes + BaseLen

\* C7 as amended: the history holds one score per episode of at least
\* MinTurns turns and none for a shorter one; without restore path it is
\* << 0 >> before the first batch, and its length is 1 (or the restored
\* length) plus the number of such episodes.
C7_OnePerKeptEpisode ==
    /\ (pc = "loop" /\ i = 1 /\ args.restore = None) => scores = << 0 >>
    /\ pc = "loop"
           => Len(scores) = nKept + (IF args.restore = None THEN 1 ELSE BaseLen)
    /\ pc \in {"while", "turn", "episode_end", "optim", "return"}
           => Len(scores) + Len(bscores) =
                  nKept + (IF args.restore = None THEN 1 ELSE BaseLen)
    /\ nKept <= nEpisodes

C7_Witness ==
    /\ pc = "loop"
    /\ i = 3
    /\ args.restore = None
    /\ nEpisodes = 4
    /\ nKept = 3
    /\ Len(scores) = 4

\* C8: during a rollout the log-probability list and the reward list both
\* have one entry per game action called; a game action is called only while
\* no earlier action of the episode returned a terminal signal or left the
\* game over; and the rollout ends at the turn where that happens.
C8_OnePairPerAction ==
    [][ /\ pc' \in {"turn", "episode_end"}
               => /\ Len(log_probs') = game'.calls
                  /\ Len(rewards') = game'.calls
        /\ game'.calls = game.calls + 1
               => /\ pc = "turn"
                  /\ game.calls > 0 => ~Terminal(game, out)
        /\ pc = "turn"
               => /\ game'.calls = game.calls + 1
                  /\ pc' = "episode_end" <=> Terminal(game', out')
                  /\ pc' = "turn" <=> ~Terminal(game', out')
      ]_vars

C8_Witness ==
    /\ pc = "episode_end"
    /\ out = Signal
    /\ game.calls = 5
    /\ Len(log_probs) = 5
    /\ Len(rewards) = 5

\* C9: a turn appends one reward and changes no earlier one: the score
\* delta of the turn when the rollout goes on; -1 when the action returned a
\* terminal signal; otherwise, the game being over, -1 when the score is not
\* PerfectScore and the score delta when it is.
C9_RewardRule ==
    [][ /\ pc = "turn"
            => LET delta == game'.score - game.score
               IN  /\ Len(rewards') = Len(rewards) + 1
                   /\ SubSeq(rewards', 1, Len(rewards)) = rewards
                   /\ pc' = "turn" => Last(rewards') = delta
                   /\ (pc' = "episode_end" /\ out' # None)
                          => Last(rewards') = -1
                   /\ (pc' = "episode_end" /\ out' = None
                          /\ game'.score # PerfectScore)
                          => Last(rewards') = -1
                   /\ (pc' = "episode_end" /\ out' = None
                          /\ game'.score = PerfectScore)
                          => Last(rewards') = delta
        /\ pc = "episode_end" => rewards' = rewards
      ]_vars

C9_Witness ==
    /\ pc = "episode_end"
    /\ out = None
    /\ game.gameover
    /\ game.score = PerfectScore
    /\ rewards = << 0, 1, 24 >>

\* C10: an episode is started exactly while the batch's turn count is below
\* args.bs; the optimizer steps only after the loop, with a turn count of at
\* least args.bs, and once: the i-th call of play_and_train returns with the
\* optimizer's i-th step taken.
C10_OneStepPerBatch ==
    [][ /\ optimSteps' # optimSteps
               => /\ optimSteps' = optimSteps + 1
                  /\ pc = "optim"
                  /\ turns >= args.bs
        /\ pc = "while" => (pc' = "turn" <=> turns < args.bs)
        /\ pc' \in {"while", "turn", "episode_end", "optim"}
               => optimSteps' = i' - 1
        /\ pc' = "return" => optimSteps' = i'
      ]_vars

C10_Witness ==
    /\ pc = "return"
    /\ i = 2
    /\ optimSteps = 2
    /\ args.bs = 4
    /\ turns = 6
    /\ Len(bscores) = 2

-----------------------------------------------------------------------------
(* Progress of the training loop (SpecLive) *)

-----------------------------------------------------------------------------
(* The periodic snapshot (Spec) *)

\* C12: the batch that ends yields a snapshot exactly when its number i is a
\* positive multiple of SaveEvery; the snapshot holds the score history with
\* this batch's scores appended and the parameters after this batch's
\* optimizer step, the i-th; a checkpoint write is started only on a
\* snapshot, and the file is touched only by such a write or by the cleanup.
C12_PeriodicSnapshot ==
    [][ /\ (pc = "loop" /\ pc' \in {"loop", "yield"})
               => /\ pc' = "yield" <=> (i > 0 /\ i % SaveEvery = 0)
                  /\ optimSteps' = i
                  /\ params' # params
                  /\ IsPrefix(scores, scores')
                  /\ Len(scores') > Len(scores)
        /\ (pc = "loop" /\ pc' = "yield")
               => /\ i' = i
                  /\ res'.scores = scores'
                  /\ res'.state = params'
                  /\ res'.args = args
                  /\ Len(res'.scores) >= i + (IF args.restore = None
                                              THEN 1 ELSE BaseLen)
        /\ pc' = "save_args" => pc = "yield"
        /\ (Started /\ fs'[args.pickle] # fs[args.pickle])
               => pc \in {"yield", "save_args", "save_res", "except"}
      ]_vars

C12_Witness ==
    /\ pc = "yield"
    /\ i = 2 * SaveEvery
    /\ optimSteps = i
    /\ res.scores = scores
    /\ Last(scores) = i % 26

-----------------------------------------------------------------------------
(* What a rollout leaves alone (SpecTrain) *)

\* C13: from the call of play_and_train to the end of the batch's last
\* episode the parameters are unchanged; they change only by the one
\* optimizer step that ends the batch or by the restore at startup; the score
\* history is unchanged while the batch runs and is only extended, after
\* play_and_train has returned (before the first batch it is created at
\* line 181 and set by the restore).
C13_RolloutFrame ==
    [][ /\ pc \in {"while", "turn", "episode_end"}
               => (params' = params /\ optimSteps' = optimSteps)
        /\ params' # params
               => \/ pc = "optim" /\ params' = OptimizerStep(params)
                  \/ pc = "restore"
        /\ pc \in {"while", "turn", "episode_end", "optim"}
               => scores' = scores
        /\ scores' # scores
               => \/ pc = "return" /\ IsPrefix(scores, scores')
                  \/ pc \in {"start", "restore"}
      ]_vars

C13_Witness ==
    /\ pc = "episode_end"
    /\ i = 2
    /\ Len(log_probs) >= MinTurns
    /\ turns > 0
    /\ args.restore = None
    /\ params = OptimizerStep(FreshParams)
    /\ optimSteps = 1
    /\ Len(scores) = 2

-----------------------------------------------------------------------------
(* Kept and dropped episodes (SpecTrain) *)

\* C17: an episode of at least 3 recorded turns adds one loss term per turn
\* to the batch loss, its turn count to turns and its final score to the
\* returned scores; a shorter one adds to none of them; so the loss is
\* divided by exactly the number of turns whose terms were summed, and the
\* returned list, empty at the call, has one score per such episode.
C17_KeptOrDroppedTogether ==
    [][ /\ (pc = "episode_end" /\ Len(log_probs) >= 3)
               => /\ total_loss'.terms = total_loss.terms + Len(log_probs)
                  /\ turns' = turns + Len(log_probs)
                  /\ bscores' = Append(bscores, game.score)
        /\ (pc = "episode_end" /\ Len(log_probs) < 3)
               => /\ total_loss' = total_loss
                  /\ turns' = turns
                  /\ bscores' = bscores
        /\ pc \in {"while", "turn"}
               => /\ total_loss'.terms = total_loss.terms
                  /\ turns' = turns
                  /\ bscores' = bscores
        /\ (pc = "loop" /\ pc' = "while")
               => /\ total_loss'.terms = 0
                  /\ turns' = 0
                  /\ bscores' = << >>
        /\ pc' = "optim"
               => /\ total_loss'.div = turns'
                  /\ total_loss'.terms = turns'
        /\ (pc = "optim" /\ pc' = "return")
               => /\ total_loss' = total_loss
                  /\ bscores' = bscores
        /\ (pc = "return" /\ pc' = "loop")
               => scores' = scores \o bscores
      ]_vars

C17_Witness ==
    /\ pc = "optim"
    /\ i = 1
    /\ nEpisodes = 3
    /\ nKept = 2
    /\ Len(bscores) = 2
    /\ turns = 6
    /\ total_loss = [terms |-> 6, div |-> 6]

-----------------------------------------------------------------------------
(* The turn with its samples and its game call (SpecTurn): the training    *)
(* loop of SpecLive, each turn recording what it sampled and what it       *)
(* called.                                                                 *)

\* line 128: "rgbyp"
Colours == << "r", "g", "b", "y", "p" >>

ClueArgMut(info) ==
    IF info <= 5
    THEN [kind |-> "number", number |-> info, colour |-> ""]
    ELSE [kind |-> "colour", number |-> -1, colour |-> Colours[info - 5 + 1]]

\* lines 125-128: the second argument of game.clue
ClueArg(info) ==
    IF info < 5
    THEN [kind |-> "number", number |-> info, colour |-> ""]
    ELSE [kind |-> "colour", number |-> -1, colour |-> Colours[info - 5 + 1]]

\* lines 114-128: the game method called and its arguments
GameCall(action, position, target, info) ==
    IF action = 0
    THEN [fn |-> "play", a |-> position, kind |-> "none", number |-> -1,
          colour |-> ""]
    ELSE IF action = 1
    THEN [fn |-> "discard", a |-> position, kind |-> "none", number |-> -1,
          colour |-> ""]
    ELSE [fn |-> "clue", a |-> target, kind |-> ClueArg(info).kind,
          number |-> ClueArg(info).number, colour |-> ClueArg(info).colour]

\* lines 111-124: the sample() calls of a turn in order: the slice of the
\* logits sampled from, the index drawn, and the weight w in halves
Samples(action, position, target, info) ==
    LET w == SampleWeights(action)
    IN  IF action \in {0, 1}
        THEN << [slice |-> "action", i |-> action, w |-> w[1]],
                [slice |-> "position", i |-> position, w |-> w[2]] >>
        ELSE << [slice |-> "action", i |-> action, w |-> w[1]],
                [slice |-> "target", i |-> target, w |-> w[2]],
                [slice |-> "info", i |-> info, w |-> w[3]] >>

\* lines 95-144 with the indices drawn by the turn's sample() calls
TurnSampled(action, position, target, info) ==
    \E r \in GameResponses(game, TRUE) :
       /\ TurnStep(action, r)
       /\ call' = GameCall(action, position, target, info)
       /\ samples' = Samples(action, position, target, info)

\* a turn of SpecTurn: a Categorical over 3, 5, 5 and 10 logits draws any
\* index; position is set by actions 0 and 1 only, target and info by
\* action 2 only (the unset ones are given as 0 and not used)
TurnDecoded ==
    \/ \E action \in {0, 1}, position \in 0..4 :
          TurnSampled(action, position, 0, 0)
    \/ \E target \in 0..4, info \in 0..9 :
          TurnSampled(2, 0, target, info)

\* the run starts without a checkpoint to restore
InitTurn ==
    /\ Init
    /\ args.restore = None
    /\ args.bs > 0
    /\ fs[CkptPath] = NoFile

\* SpecTurn follows the first episode of the run
EpisodeStartTurn == nEpisodes = 0 /\ EpisodeStart

NextTurn ==
    \/ InitialSave
    \/ ExecuteStart
    \/ PlayAndTrainCallLive
    \/ EpisodeStartTurn
    \/ TurnDecoded
    \/ EpisodeEnd
    \/ Divide
    \/ OptimStep
    \/ Return

SpecTurn == InitTurn /\ [][NextTurn]_vars

\* C16: a turn makes exactly one game call, chosen by the top-level sample:
\* 0 is play(position), 1 is discard(position), 2 is clue(target, info) with
\* position and target in 0..4; an info sample v in 0..4 is passed as the
\* number v, and v in 5..9 as the (v-5)-th of the colours r, g, b, y, p.
C16_ActionDecode ==
    [][ pc = "turn" =>
          LET a == samples'[1].i
          IN  /\ samples'[1].slice = "action"
              /\ a \in 0..2
              /\ game'.calls = game.calls + 1
              /\ a = 0 => /\ call'.fn = "play"
                          /\ samples'[2].slice = "position"
                          /\ call'.a = samples'[2].i
                          /\ call'.a \in 0..4
                          /\ call'.kind = "none"
              /\ a = 1 => /\ call'.fn = "discard"
                          /\ samples'[2].slice = "position"
                          /\ call'.a = samples'[2].i
                          /\ call'.a \in 0..4
                          /\ call'.kind = "none"
              /\ a = 2 => /\ call'.fn = "clue"
                          /\ samples'[2].slice = "target"
                          /\ call'.a = samples'[2].i
                          /\ call'.a \in 0..4
                          /\ samples'[3].slice = "info"
                          /\ LET v == samples'[3].i
                             IN  /\ v \in 0..9
                                 /\ v \in 0..4 =>
                                       /\ call'.kind = "number"
                                       /\ call'.number = v
                                 /\ v \in 5..9 =>
                                       /\ call'.kind = "colour"
                                       /\ call'.colour =
                                            << "r", "g", "b", "y", "p" >>[v - 4]
      ]_vars

C16_Witness ==
    /\ call.fn = "clue"
    /\ call.kind = "colour"
    /\ call.colour = "r"
    /\ samples[3].i = 5
    /\ game.calls = 2

\* the weights of the samples q, in halves
RECURSIVE WeightSum(_)
WeightSum(q) == IF q = << >> THEN 0 ELSE Head(q).w + WeightSum(Tail(q))

\* C18: whatever is sampled, the weights of a turn's log-probability terms
\* sum to 2 (4 halves): the top-level choice has weight 1 and is followed by
\* one position sample of weight 1 (play, discard) or by a target and an
\* info sample of weight 0.5 each (clue); the turn appends exactly one value,
\* the sum of these terms, to log_probs.
C18_TurnWeightsSumToTwo ==
    [][ pc = "turn" =>
          /\ samples'[1].slice = "action"
          /\ samples'[1].w = 2
          /\ \/ /\ samples'[1].i \in {0, 1}
                /\ Len(samples') = 2
                /\ samples'[2].slice = "position"
                /\ samples'[2].w = 2
             \/ /\ samples'[1].i = 2
                /\ Len(samples') = 3
                /\ samples'[2].slice = "target"
                /\ samples'[2].w = 1
                /\ samples'[3].slice = "info"
                /\ samples'[3].w = 1
          /\ WeightSum(samples') = 4
          /\ Len(log_probs') = Len(log_probs) + 1
          /\ SubSeq(log_probs', 1, Len(log_probs)) = log_probs
          /\ log_probs'[Len(log_probs')] = WeightSum(samples')
      ]_vars

C18_Witness ==
    /\ Len(samples) = 3
    /\ samples[2].w = 1
    /\ samples[3].w = 1
    /\ call.fn = "clue"
    /\ Len(log_probs) = 3
    /\ log_probs[3] = 4

-----------------------------------------------------------------------------
(* Discounted returns (SpecReturns) *)

\* C15: the returns of an episode are as many as its rewards and in turn
\* order: the last one is the last reward, each earlier one is its reward
\* plus gamma times the next return; for the rewards 1, 1, 1 and gamma 0.99
\* they are 2.9701, 1.99 and 1.
C15_DiscountedReturns ==
    pc = "returns_done" =>
        LET T == Len(rewards)
        IN  /\ Len(returns) = T
            /\ returns[T] = [n |-> rewards[T], d |-> 1]
            /\ \A t \in 1..(T - 1) :
                  returns[t] = FracAdd(Frac(rewards[t], 1),
                                       FracMul(Frac(99, 100), returns[t + 1]))
            /\ rewards = << 1, 1, 1 >> =>
                  returns = << [n |-> 29701, d |-> 10000],
                               [n |-> 199, d |-> 100],
                               [n |-> 1, d |-> 1] >>

C15_Witness ==
    /\ pc = "returns_done"
    /\ rewards = << 1, 1, 1 >>
    /\ returns[1] = [n |-> 29701, d |-> 10000]

-----------------------------------------------------------------------------
(* Resuming in place (Spec) *)

\* C19 as claimed: when --restore and --pickle name the same file and it
\* holds a complete checkpoint, the steps up to and including the restore
\* leave the file as it is, and the restore gives the run the parameters and
\* the score history saved in it.
C19_ResumeInPlaceSafe ==
    [][ ( /\ args.restore = args.pickle
          /\ pc \in {"save0", "start", "restore"}
          /\ CompleteCheckpoint(fs[args.pickle]) )
            => /\ fs'[args.pickle] = fs[args.pickle]
               /\ pc = "restore"
                     => /\ pc' = "loop"
                        /\ scores' = Loaded(fs[args.restore]).scores
                        /\ params' = Loaded(fs[args.restore]).state
      ]_vars

====
